---- MODULE Spec2Model ----
(***************************************************************************)
(* DemARK notebooks: the cstwMPC "very impatient households" notebook and  *)
(* the tractable-buffer-stock quick demo.                                  *)
(*                                                                         *)
(* The notebooks drive agent-type objects of an external library through   *)
(* solve / initializeSim / simulate and read attributes back.  The model   *)
(* keeps the notebook's own state: the kernel's position in the notebook,  *)
(* the objects the notebook creates (a heap of references, so that         *)
(* deepcopy and aliasing differ), the names it binds, what it prints and   *)
(* plots.  A library call is modelled by what the notebook can observe of  *)
(* it: it acts on its receiver, and its result is a term built from the    *)
(* receiver's attributes (never the identity).                             *)
(*                                                                         *)
(* Numbers: discount factors are in units of 1e-7 in the cstwMPC notebook; *)
(* the tractable model's parameters are in percent (UnempPrb in tenths).   *)
(***************************************************************************)
EXTENDS Integers, Sequences, FiniteSets, TLC

VARIABLES
    notebook,    \* the notebook this kernel session runs
    pc,          \* the cell (and statement) the cstwMPC kernel is about to run
    heap,        \* the agent-type objects, by reference (1..Len(heap))
    hist,        \* per object: the library methods invoked on it, in order
    MyTypes,     \* the list MyTypes: references into heap
    NewTypes,    \* the list NewTypes of the very-impatient-household cell
    prog,        \* per element of MyTypes: statements of the loop body done
    printed,     \* what the cstwMPC notebook has printed
    bound,       \* names bound in the kernel by the Lorenz cell's imports
    stats,       \* the statistics and plots the cstwMPC notebook produced
    errors,      \* the exceptions cells of the cstwMPC notebook ended with
    dataPresent, \* whether the reference data file of the SCF import exists
    MyTBStype,   \* the shared TractableConsumerType instance
    tbsOut,      \* what the last call of makeTBSplot printed and plotted
    calc,        \* the MPC annualisation: its operands and its result
    keyn,        \* the Keynesian notebook: KeynesianConsumer.__init__
    credit       \* the credit-and-income MPC notebook

vars == <<notebook, pc, heap, hist, MyTypes, NewTypes, prog, printed, bound, stats,
          errors, dataPresent, MyTBStype, tbsOut, calc, keyn, credit>>

nbvars == <<notebook, pc, heap, hist, MyTypes, NewTypes, prog, printed, bound, stats,
            errors, dataPresent>>

tbsvars == <<MyTBStype, tbsOut>>

(***************************************************************************)
(* cstwMPC_calibrated_parameters and the discount-factor distribution      *)
(***************************************************************************)
num_types == 7

DiscFac_mean == 9855583

DiscFac_spread == 85000

T_sim == 1200

AgentCount == 10000

\* "DiscFac":0.97, the dummy value of the dictionary
BaselineDiscFac == 9700000

\* 1.0 in the units of the discount factor
DiscFacUnit == 10000000

\* Rfree * LivPrb = 1.01/(1 - 1/160) * (1 - 1/160) = 1.01, in percent
RfreeTimesLivPrb == 101

\* the seed of an object whose seed the notebook has not set
NoSeed == -1

\* approxUniform(N, bot, top)[1]: the N equiprobable points of the uniform
\* distribution on [bot, top], element nn (0-based)
approxUniform(N, bot, top, nn) == bot + (((2 * nn + 1) * (top - bot)) \div (2 * N))

DiscFac_dstn(nn) ==
    approxUniform(num_types, DiscFac_mean - DiscFac_spread,
                  DiscFac_mean + DiscFac_spread, nn)

\* CRRA = 1, so the absolute impatience factor is Rfree*LivPrb*DiscFac; the
\* solver's message appears when it exceeds 1 (1.00032 and 1.00277 for the two
\* most patient types)
ViolatesAIC(DiscFac) == RfreeTimesLivPrb * DiscFac > 100 * DiscFacUnit

(***************************************************************************)
(* Agent-type objects                                                      *)
(***************************************************************************)
NoSolution == [solved |-> FALSE, DiscFac |-> 0, advisory |-> FALSE]

NoPanel == [state |-> "none", seed |-> NoSeed, t |-> 0, count |-> 0,
            policy |-> NoSolution]

\* BaselineType = IndShockConsumerType(**cstwMPC_calibrated_parameters)
NewIndShockConsumerType ==
    [DiscFac |-> BaselineDiscFac, seed |-> NoSeed,
     solution |-> NoSolution, panel |-> NoPanel]

BaselineType == 1

\* deepcopy(x): a new object with the attributes of x; <<heap, reference>>
AliasInsteadOfCopy(h, r) == <<h, r>>

deepcopy(h, r) == <<Append(h, h[r]), Len(h) + 1>>

\* ThisType.solve(): the solution is a term of the receiver's parameters
solve(h, r) ==
    [h EXCEPT ![r].solution =
        [solved |-> TRUE, DiscFac |-> h[r].DiscFac,
         advisory |-> ViolatesAIC(h[r].DiscFac)]]

\* ThisType.initializeSim(): a fresh panel of AgentCount agents at t = 0
initializeSim(h, r) ==
    [h EXCEPT ![r].panel =
        [state |-> "initialized", seed |-> h[r].seed, t |-> 0,
         count |-> AgentCount, policy |-> NoSolution]]

\* ThisType.simulate() needs a solution and an initialized panel
CanSimulate(h, r) == h[r].solution.solved /\ h[r].panel.state # "none"

\* ThisType.simulate(): T_sim periods under the receiver's solution
simulate(h, r) ==
    [h EXCEPT ![r].panel =
        [state |-> "simulated", seed |-> h[r].panel.seed,
         t |-> h[r].panel.t + T_sim, count |-> h[r].panel.count,
         policy |-> h[r].solution]]

Call(op, h, r) ==
    CASE op = "solve" -> solve(h, r)
      [] op = "initializeSim" -> initializeSim(h, r)
      [] op = "simulate" -> simulate(h, r)

\* the body of the loop of the solve-and-simulate cell
SimulateBeforeInitialize == <<"solve", "simulate", "initializeSim">>

LoopBody == <<"solve", "initializeSim", "simulate">>

\* ThisType.aLvlNow / ThisType.MPCnow exist once the object has a panel
HasPanel(h, r) == h[r].panel.state # "none"

aLvlNow(h, r) == [of |-> "aLvlNow", panel |-> h[r].panel]

MPCnow(h, r) == [of |-> "MPCnow", panel |-> h[r].panel]

(***************************************************************************)
(* The cstwMPC notebook, cell by cell                                      *)
(***************************************************************************)
NoStats ==
    [aLvl_all |-> <<>>, mean |-> FALSE, SCF_wealth |-> "unbound",
     sim_wealth |-> <<>>, SCF_Lorenz_points |-> "unbound",
     sim_Lorenz_points |-> FALSE, plots |-> {},
     MPC_sim |-> <<>>, MPCpercentiles |-> FALSE, NewMPCpercentiles |-> FALSE]

\* for nn in range(num_types): NewType = deepcopy(BaselineType);
\* NewType.DiscFac = DiscFac_dstn[nn]; NewType.seed = nn; MyTypes.append(NewType)
ConstructTypeSeedNotSet ==
    /\ notebook = "cstwMPC"
    /\ pc = "construct"
    /\ Len(MyTypes) < num_types
    /\ LET nn == Len(MyTypes)
           cp == deepcopy(heap, BaselineType)
           NewType == cp[2]
           h2 == [cp[1] EXCEPT ![NewType].DiscFac = DiscFac_dstn(nn)]
       IN /\ heap' = h2
          /\ hist' = IF Len(h2) > Len(heap) THEN Append(hist, <<>>) ELSE hist
          /\ MyTypes' = Append(MyTypes, NewType)
          /\ prog' = Append(prog, 0)
          /\ pc' = IF nn + 1 = num_types THEN "loop" ELSE "construct"
    /\ UNCHANGED <<notebook, NewTypes, printed, bound, stats, errors, dataPresent>>
    /\ UNCHANGED <<tbsvars, calc, keyn, credit>>

ConstructType ==
    /\ notebook = "cstwMPC"
    /\ pc = "construct"
    /\ Len(MyTypes) < num_types
    /\ LET nn == Len(MyTypes)
           cp == deepcopy(heap, BaselineType)
           NewType == cp[2]
           h2 == [cp[1] EXCEPT ![NewType].DiscFac = DiscFac_dstn(nn),
                               ![NewType].seed = nn]
       IN /\ heap' = h2
          /\ hist' = IF Len(h2) > Len(heap) THEN Append(hist, <<>>) ELSE hist
          /\ MyTypes' = Append(MyTypes, NewType)
          /\ prog' = Append(prog, 0)
          /\ pc' = IF nn + 1 = num_types THEN "loop" ELSE "construct"
    /\ UNCHANGED <<notebook, NewTypes, printed, bound, stats, errors, dataPresent>>
    /\ UNCHANGED <<tbsvars, calc, keyn, credit>>

\* one statement of the loop body for element i of MyTypes
Step(i) ==
    LET ThisType == MyTypes[i]
        op == LoopBody[prog[i] + 1]
    IN /\ hist' = [hist EXCEPT ![ThisType] = Append(@, op)]
       /\ IF op = "simulate" /\ ~CanSimulate(heap, ThisType)
          THEN /\ errors' = errors \cup {<<"loop", "Error">>}
               /\ pc' = "aggregate"
               /\ UNCHANGED <<heap, prog, printed>>
          ELSE /\ heap' = Call(op, heap, ThisType)
               /\ prog' = [prog EXCEPT ![i] = @ + 1]
               /\ printed' =
                    IF op = "solve" /\ ViolatesAIC(heap[ThisType].DiscFac)
                    THEN printed \cup {<<"violates the absolute impatience condition",
                                          heap[ThisType].DiscFac>>}
                    ELSE printed
               /\ pc' = IF \A j \in 1..Len(MyTypes) : prog'[j] = Len(LoopBody)
                         THEN "aggregate" ELSE "loop"
               /\ UNCHANGED errors
       /\ UNCHANGED <<notebook, NewTypes, MyTypes, bound, stats, dataPresent>>
       /\ UNCHANGED <<tbsvars, calc, keyn, credit>>

\* for ThisType in log_progress(MyTypes, every=1): the elements in list order,
\* each one's three statements before the next element's
LoopStep ==
    /\ notebook = "cstwMPC"
    /\ pc = "loop"
    /\ \E i \in 1..Len(MyTypes) :
          /\ prog[i] < Len(LoopBody)
          /\ \A j \in 1..(i - 1) : prog[j] = Len(LoopBody)
          /\ Step(i)

\* the same statements with the types' pipelines handed to independent workers
WorkerStep ==
    /\ notebook = "cstwMPC"
    /\ pc = "loop"
    /\ \E i \in 1..Len(MyTypes) :
          /\ prog[i] < Len(LoopBody)
          /\ Step(i)

\* aLvl_all = np.concatenate([ThisType.aLvlNow for ThisType in MyTypes]);
\* print(... decfmt2(np.mean(aLvl_all)))
AggregateConsumesPanels ==
    /\ notebook = "cstwMPC"
    /\ pc = "aggregate"
    /\ stats' = [stats EXCEPT
                    !.aLvl_all = [i \in 1..Len(MyTypes) |-> aLvlNow(heap, MyTypes[i])],
                    !.mean = TRUE]
    /\ heap' = [r \in 1..Len(heap) |->
                  [heap[r] EXCEPT !.panel.count = 0, !.panel.state = "initialized"]]
    /\ pc' = "lorenz_import_scf"
    /\ UNCHANGED <<notebook, NewTypes, hist, MyTypes, prog, printed, bound, errors, dataPresent>>
    /\ UNCHANGED <<tbsvars, calc, keyn, credit>>

Aggregate ==
    /\ notebook = "cstwMPC"
    /\ pc = "aggregate"
    /\ IF \A i \in 1..Len(MyTypes) : HasPanel(heap, MyTypes[i])
       THEN /\ stats' = [stats EXCEPT
                           !.aLvl_all = [i \in 1..Len(MyTypes) |-> aLvlNow(heap, MyTypes[i])],
                           !.mean = TRUE]
            /\ printed' = printed \cup {<<"The ratio of aggregate capital to permanent income is", 0>>}
            /\ UNCHANGED errors
       ELSE /\ errors' = errors \cup {<<"aggregate", "AttributeError">>}
            /\ UNCHANGED <<stats, printed>>
    /\ pc' = "lorenz_import_scf"
    /\ UNCHANGED <<notebook, NewTypes, heap, hist, MyTypes, prog, bound, dataPresent>>
    /\ UNCHANGED <<tbsvars, calc, keyn, credit>>

\* from HARK.cstwMPC.SetupParamsCSTW import SCF_wealth, SCF_weights
SubstituteEmptyData(present) ==
    IF present THEN [raised |-> FALSE, value |-> "SCF"]
    ELSE [raised |-> FALSE, value |-> "empty"]

ImportSCF(present) ==
    IF present THEN [raised |-> FALSE, value |-> "SCF"]
    ELSE [raised |-> TRUE, value |-> "unbound"]

LorenzImportSCF ==
    /\ notebook = "cstwMPC"
    /\ pc = "lorenz_import_scf"
    /\ LET r == ImportSCF(dataPresent)
       IN IF r.raised
          THEN /\ errors' = errors \cup {<<"lorenz", "FileNotFoundError">>}
               /\ pc' = "mpc"
               /\ UNCHANGED <<bound, stats>>
          ELSE /\ bound' = bound \cup {"SCF_wealth", "SCF_weights"}
               /\ stats' = [stats EXCEPT !.SCF_wealth = r.value]
               /\ pc' = "lorenz_import_utilities"
               /\ UNCHANGED errors
    /\ UNCHANGED <<notebook, NewTypes, heap, hist, MyTypes, prog, printed, dataPresent>>
    /\ UNCHANGED <<tbsvars, calc, keyn, credit>>

\* from HARK.utilities import getLorenzShares, getPercentiles
LorenzImportUtilities ==
    /\ notebook = "cstwMPC"
    /\ pc = "lorenz_import_utilities"
    /\ bound' = bound \cup {"getLorenzShares", "getPercentiles"}
    /\ pc' = "lorenz_compute"
    /\ UNCHANGED <<notebook, NewTypes, heap, hist, MyTypes, prog, printed, stats, errors, dataPresent>>
    /\ UNCHANGED <<tbsvars, calc, keyn, credit>>

\* sim_wealth = ...; SCF_Lorenz_points = getLorenzShares(SCF_wealth, ...);
\* sim_Lorenz_points = getLorenzShares(sim_wealth, ...)
LorenzCompute ==
    /\ notebook = "cstwMPC"
    /\ pc = "lorenz_compute"
    /\ IF \A i \in 1..Len(MyTypes) : HasPanel(heap, MyTypes[i])
       THEN /\ stats' = [stats EXCEPT
                           !.sim_wealth = [i \in 1..Len(MyTypes) |-> aLvlNow(heap, MyTypes[i])],
                           !.SCF_Lorenz_points = stats.SCF_wealth,
                           !.sim_Lorenz_points = TRUE]
            /\ pc' = "lorenz_plot"
            /\ UNCHANGED errors
       ELSE /\ errors' = errors \cup {<<"lorenz", "AttributeError">>}
            /\ pc' = "mpc"
            /\ UNCHANGED stats
    /\ UNCHANGED <<notebook, NewTypes, heap, hist, MyTypes, prog, printed, bound, dataPresent>>
    /\ UNCHANGED <<tbsvars, calc, keyn, credit>>

\* plt.plot(pctiles, SCF_Lorenz_points, '--k'); plt.plot(pctiles, sim_Lorenz_points, '-b')
LorenzPlot ==
    /\ notebook = "cstwMPC"
    /\ pc = "lorenz_plot"
    /\ stats' = [stats EXCEPT !.plots = @ \cup {"SCF_Lorenz_points", "sim_Lorenz_points"}]
    /\ pc' = "mpc"
    /\ UNCHANGED <<notebook, NewTypes, heap, hist, MyTypes, prog, printed, bound, errors, dataPresent>>
    /\ UNCHANGED <<tbsvars, calc, keyn, credit>>

\* MPC_sim = np.concatenate([...MPCnow...]);
\* MPCpercentiles_quarterly = getPercentiles(MPC_sim, percentiles=percentiles)
MPCPercentiles ==
    /\ notebook = "cstwMPC"
    /\ pc = "mpc"
    /\ IF ~(\A i \in 1..Len(MyTypes) : HasPanel(heap, MyTypes[i]))
       THEN /\ errors' = errors \cup {<<"mpc", "AttributeError">>}
            /\ UNCHANGED <<stats, printed>>
       ELSE IF "getPercentiles" \notin bound
       THEN /\ stats' = [stats EXCEPT
                           !.MPC_sim = [i \in 1..Len(MyTypes) |-> MPCnow(heap, MyTypes[i])]]
            /\ errors' = errors \cup {<<"mpc", "NameError">>}
            /\ UNCHANGED printed
       ELSE /\ stats' = [stats EXCEPT
                           !.MPC_sim = [i \in 1..Len(MyTypes) |-> MPCnow(heap, MyTypes[i])],
                           !.MPCpercentiles = TRUE]
            /\ printed' = printed \cup {<<"The MPC at the 10th percentile of the distribution is", 0>>}
            /\ UNCHANGED errors
    /\ pc' = "newtypes_copy"
    /\ UNCHANGED <<notebook, NewTypes, heap, hist, MyTypes, prog, bound, dataPresent>>
    /\ UNCHANGED <<tbsvars, calc, keyn, credit>>

(***************************************************************************)
(* The very-impatient-household cell                                       *)
(***************************************************************************)
\* NewTypes[0].DiscFac = 0.8
VeryImpatientDiscFac == 8000000

\* deepcopy(list): a new object for every object of the list (one per object,
\* however often the list names it); <<heap, list of references>>
AliasTheElements(h, refs) == <<h, refs>>

deepcopyList(h, refs) ==
    LET first(k) == CHOOSE j \in 1..k : refs[j] = refs[k] /\
                        \A i \in 1..(j - 1) : refs[i] # refs[k]
    IN <<h \o [k \in 1..Len(refs) |-> h[refs[k]]],
         [k \in 1..Len(refs) |-> Len(h) + first(k)]>>

\* the kernel's position at each of the three method calls on NewTypes[0]
NewTypesRunPc == <<"newtypes_run1", "newtypes_run2", "newtypes_run3">>

\* NewTypes = deepcopy(MyTypes); NewTypes[0].DiscFac = 0.8
NewTypesCopy ==
    /\ notebook = "cstwMPC"
    /\ pc = "newtypes_copy"
    /\ LET cp == deepcopyList(heap, MyTypes)
       IN /\ NewTypes' = cp[2]
          /\ heap' = [cp[1] EXCEPT ![cp[2][1]].DiscFac = VeryImpatientDiscFac]
          /\ hist' = hist \o [k \in 1..(Len(cp[1]) - Len(heap)) |-> <<>>]
    /\ pc' = NewTypesRunPc[1]
    /\ UNCHANGED <<notebook, MyTypes, prog, printed, bound, stats, errors, dataPresent>>
    /\ UNCHANGED <<tbsvars, calc, keyn, credit>>

\* NewTypes[0].solve(); NewTypes[0].initializeSim(); NewTypes[0].simulate():
\* one statement per step
NewTypesRun ==
    /\ notebook = "cstwMPC"
    /\ \E k \in 1..Len(NewTypesRunPc) :
       LET r == NewTypes[1]
           done == k - 1
           op == LoopBody[k]
       IN /\ pc = NewTypesRunPc[k]
          /\ hist' = [hist EXCEPT ![r] = Append(@, op)]
          /\ IF op = "simulate" /\ ~CanSimulate(heap, r)
             THEN /\ errors' = errors \cup {<<"newtypes", "Error">>}
                  /\ pc' = "end"
                  /\ UNCHANGED <<heap, printed>>
             ELSE /\ heap' = Call(op, heap, r)
                  /\ printed' =
                       IF op = "solve" /\ ViolatesAIC(heap[r].DiscFac)
                       THEN printed \cup {<<"violates the absolute impatience condition",
                                             heap[r].DiscFac>>}
                       ELSE printed
                  /\ pc' = IF done + 1 = Len(LoopBody) THEN "newtypes_mpc"
                            ELSE NewTypesRunPc[k + 1]
                  /\ UNCHANGED errors
    /\ UNCHANGED <<notebook, NewTypes, MyTypes, prog, bound, stats, dataPresent>>
    /\ UNCHANGED <<tbsvars, calc, keyn, credit>>

\* MPC_sim = np.concatenate([ThisType.MPCnow for ThisType in NewTypes]);
\* MPCpercentiles_quarterly = getPercentiles(MPC_sim, percentiles=percentiles)
NewTypesMPC ==
    /\ notebook = "cstwMPC"
    /\ pc = "newtypes_mpc"
    /\ IF "getPercentiles" \notin bound
       THEN /\ stats' = [stats EXCEPT
                           !.MPC_sim = [i \in 1..Len(NewTypes) |-> MPCnow(heap, NewTypes[i])]]
            /\ errors' = errors \cup {<<"newtypes", "NameError">>}
            /\ UNCHANGED printed
       ELSE /\ stats' = [stats EXCEPT
                           !.MPC_sim = [i \in 1..Len(NewTypes) |-> MPCnow(heap, NewTypes[i])],
                           !.NewMPCpercentiles = TRUE]
            /\ printed' = printed \cup {<<"The MPC at the 10th percentile of the distribution is", 1>>}
            /\ UNCHANGED errors
    /\ pc' = "end"
    /\ UNCHANGED <<notebook, NewTypes, heap, hist, MyTypes, prog, bound, dataPresent>>
    /\ UNCHANGED <<tbsvars, calc, keyn, credit>>

(***************************************************************************)
(* The tractable-buffer-stock notebook                                     *)
(* Parameters in percent, UnempPrb in tenths, CRRA a whole number: the     *)
(* dictionary's and the widgets' values rounded to that grid.              *)
(***************************************************************************)
DiscFacValues == {95, 99}

CRRAValues == {1, 2}

RfreeValues == {101, 110}

PermGroFacValues == {95, 100}

UnempPrbValues == {0, 1}

NoTBSSolution ==
    [solved |-> FALSE, DiscFac |-> 0, CRRA |-> 0, Rfree |-> 0,
     PermGroFac |-> 0, UnempPrb |-> 0]

\* MyTBStype = TractableConsumerType(**TBS_dictionary)
NewTractableConsumerType ==
    [DiscFac |-> 97, CRRA |-> 2, Rfree |-> 101, PermGroFac |-> 100,
     UnempPrb |-> 0, solution |-> NoTBSSolution]

\* the values of the widgets when interact first calls makeTBSplot
WidgetDefaults ==
    [DiscFac |-> 95, CRRA |-> 2, Rfree |-> 101, PermGroFac |-> 100, UnempPrb |-> 0,
     plot_emp |-> TRUE, plot_ret |-> TRUE, plot_mSS |-> TRUE, show_targ |-> TRUE]

WidgetValues ==
    [DiscFac : DiscFacValues, CRRA : CRRAValues, Rfree : RfreeValues,
     PermGroFac : PermGroFacValues, UnempPrb : UnempPrbValues,
     plot_emp : BOOLEAN, plot_ret : BOOLEAN, plot_mSS : BOOLEAN,
     show_targ : BOOLEAN]

RECURSIVE Pow(_, _)
Pow(b, e) == IF e = 0 THEN 1 ELSE b * Pow(b, e - 1)

\* the growth impatience condition of the notebook:
\* (R * beta * (1 - UnempPrb))^(1/rho) / Gamma < 1
GIC(o) ==
    o.Rfree * o.DiscFac * (10 - o.UnempPrb) * Pow(100, o.CRRA)
        < Pow(o.PermGroFac, o.CRRA) * 100000

NeverRaises(o) ==
    [raised |-> FALSE,
     obj |-> [o EXCEPT !.solution =
                [solved |-> TRUE, DiscFac |-> o.DiscFac, CRRA |-> o.CRRA,
                 Rfree |-> o.Rfree, PermGroFac |-> o.PermGroFac,
                 UnempPrb |-> o.UnempPrb]]]

\* MyTBStype.solve(): raises when the parameter values violate the condition
\* required for solution; otherwise the solution of the receiver's parameters
TBSsolve(o) ==
    IF GIC(o)
    THEN [raised |-> FALSE,
          obj |-> [o EXCEPT !.solution =
                     [solved |-> TRUE, DiscFac |-> o.DiscFac, CRRA |-> o.CRRA,
                      Rfree |-> o.Rfree, PermGroFac |-> o.PermGroFac,
                      UnempPrb |-> o.UnempPrb]]]
    ELSE [raised |-> TRUE, obj |-> o]

\* the model parameters among the arguments of a call of makeTBSplot
Parameters(a) ==
    [DiscFac |-> a.DiscFac, CRRA |-> a.CRRA, Rfree |-> a.Rfree,
     PermGroFac |-> a.PermGroFac, UnempPrb |-> a.UnempPrb]

NoOutput ==
    [called |-> FALSE, args |-> Parameters(NoTBSSolution), message |-> FALSE,
     emp |-> NoTBSSolution, mSS |-> FALSE,
     ret |-> NoTBSSolution, targ |-> NoTBSSolution, raised |-> FALSE]

\* the assignments at the head of makeTBSplot
AssignParameters(o, a) ==
    [o EXCEPT !.DiscFac = a.DiscFac, !.CRRA = a.CRRA,
              !.PermGroFac = a.PermGroFac, !.UnempPrb = a.UnempPrb]

\* def makeTBSplot(DiscFac,CRRA,Rfree,PermGroFac,UnempPrb,...,plot_emp,plot_ret,plot_mSS,show_targ)
makeTBSplotWithoutTry(a) ==
    LET s == TBSsolve(AssignParameters(MyTBStype, a))
        o == s.obj
        fails == s.raised \/ ((a.plot_emp \/ a.plot_ret \/ a.show_targ) /\ ~o.solution.solved)
    IN /\ MyTBStype' = o
       /\ tbsOut' =
            [called |-> TRUE,
             args |-> Parameters(a),
             message |-> FALSE,
             emp |-> IF a.plot_emp /\ ~fails THEN o.solution ELSE NoTBSSolution,
             mSS |-> a.plot_mSS /\ ~fails,
             ret |-> IF a.plot_ret /\ ~fails THEN o.solution ELSE NoTBSSolution,
             targ |-> IF a.show_targ /\ ~fails THEN o.solution ELSE NoTBSSolution,
             raised |-> fails]
       /\ UNCHANGED <<nbvars, calc, keyn, credit>>

makeTBSplot(a) ==
    LET s == TBSsolve(AssignParameters(MyTBStype, a))
        o == s.obj
        \* the first statement that reads MyTBStype.solution[0], mTarg or cTarg
        \* of an object never solved raises out of the function
        empFails == a.plot_emp /\ ~o.solution.solved
        retFails == ~empFails /\ a.plot_ret /\ ~o.solution.solved
        targFails == ~empFails /\ ~retFails /\ a.show_targ /\ ~o.solution.solved
    IN /\ MyTBStype' = o
       /\ tbsOut' =
            [called |-> TRUE,
             args |-> Parameters(a),
             message |-> s.raised,
             emp |-> IF a.plot_emp /\ ~empFails THEN o.solution ELSE NoTBSSolution,
             mSS |-> a.plot_mSS /\ ~empFails,
             ret |-> IF a.plot_ret /\ ~empFails /\ ~retFails
                     THEN o.solution ELSE NoTBSSolution,
             targ |-> IF a.show_targ /\ ~empFails /\ ~retFails /\ ~targFails
                      THEN o.solution ELSE NoTBSSolution,
             raised |-> empFails \/ retFails \/ targFails]
       /\ UNCHANGED <<nbvars, calc, keyn, credit>>

\* interact(makeTBSplot, ...): once with the widgets' initial values, then on
\* every change of a widget
Interact ==
    /\ notebook = "TBS"
    /\ \E a \in (IF tbsOut.called THEN WidgetValues ELSE {WidgetDefaults}) :
          makeTBSplot(a)

(***************************************************************************)
(* MPCpercentiles_annual = 1.0 - (1.0 - MPCpercentiles_quarterly)**4       *)
(* An MPC is the fraction <<numerator, denominator>>; the result keeps the *)
(* denominator denominator^periods, so nothing is rounded.                 *)
(***************************************************************************)
MaxDen == 6

MaxPeriods == 6

\* the MPCs between 0 and 1 with a denominator up to MaxDen
MPCs == {m \in (0..MaxDen) \X (1..MaxDen) : m[1] <= m[2]}

ForgetsOneMinus(mpc, periods) ==
    <<Pow(mpc[2] - mpc[1], periods), Pow(mpc[2], periods)>>

\* 1.0 - (1.0 - mpc)**periods
annualize(mpc, periods) ==
    <<Pow(mpc[2], periods) - Pow(mpc[2] - mpc[1], periods), Pow(mpc[2], periods)>>

NoCalc == [mpc_period |-> <<0, 1>>, periods_per_year |-> 4,
           annual |-> <<0, 1>>, done |-> FALSE]

\* the statement applied to one element of MPCpercentiles_quarterly
AnnualizeMPC ==
    /\ notebook = "annualize"
    /\ ~calc.done
    /\ calc' = [calc EXCEPT
                   !.annual = annualize(calc.mpc_period, calc.periods_per_year),
                   !.done = TRUE]
    /\ UNCHANGED <<nbvars, tbsvars, keyn, credit>>

(***************************************************************************)
(* class KeynesianConsumer                                                 *)
(* A consumption function is linear (b + k*y) or flat above a kink; income *)
(* y is a whole number of units of permanent income.                       *)
(***************************************************************************)
MaxIncome == 4

MaxCoef == 2

cFuncs ==
    [kind : {"linear", "kinked"}, b : 0..MaxCoef, k : 0..MaxCoef, kink : 1..2]

\* cFunc(y)
Eval(f, y) ==
    IF f.kind = "linear" \/ y <= f.kink THEN f.b + f.k * y
    ELSE f.b + f.k * f.kink

NocFunc == [kind |-> "none", b |-> 0, k |-> 0, kink |-> 1]

NoPFSolution ==
    [solved |-> FALSE, cycles |-> 0, DiscFac |-> 0, PermGroFac |-> 0,
     cFunc |-> NocFunc]

\* PerfForesightConsumerType(**Params.init_perfect_foresight): the library's
\* default parameters (percent), whatever they are
PerfForesightDefaults ==
    [cycles : {0, 1}, DiscFac : {5, 96}, PermGroFac : {70, 101},
     solution : {NoPFSolution}, unpacked : {FALSE}]

NoKeynesian ==
    [pc |-> "construct",
     PFexample |-> [cycles |-> 1, DiscFac |-> 96, PermGroFac |-> 101,
                    solution |-> NoPFSolution, unpacked |-> FALSE],
     cFunc |-> NocFunc, a0 |-> 0, a1 |-> 0]

\* self.a0 = self.cFunc(0)
a0(f) == Eval(f, 0)

\* self.a1 = self.cFunc(1) - self.cFunc(0)
SlopeIsValueAtOne(f) == Eval(f, 1)

a1(f) == Eval(f, 1) - Eval(f, 0)

\* PFexample.cycles = 0; PFexample.DiscFac = 0.05; PFexample.PermGroFac = [0.7]
KeynesianAssign ==
    /\ notebook = "Keynesian"
    /\ keyn.pc = "construct"
    /\ keyn' = [keyn EXCEPT !.PFexample.cycles = 0,
                            !.PFexample.DiscFac = 5,
                            !.PFexample.PermGroFac = 70,
                            !.pc = "solve"]
    /\ UNCHANGED <<nbvars, tbsvars, calc, credit>>

\* PFexample.solve(): the solution of the receiver's parameters; its
\* consumption function is the library's
KeynesianSolve ==
    /\ notebook = "Keynesian"
    /\ keyn.pc = "solve"
    /\ \E f \in cFuncs :
          keyn' = [keyn EXCEPT
                     !.PFexample.solution =
                         [solved |-> TRUE, cycles |-> keyn.PFexample.cycles,
                          DiscFac |-> keyn.PFexample.DiscFac,
                          PermGroFac |-> keyn.PFexample.PermGroFac,
                          cFunc |-> f],
                     !.pc = "unpack"]
    /\ UNCHANGED <<nbvars, tbsvars, calc, credit>>

\* PFexample.unpackcFunc()
KeynesianUnpack ==
    /\ notebook = "Keynesian"
    /\ keyn.pc = "unpack"
    /\ keyn' = [keyn EXCEPT !.PFexample.unpacked = TRUE, !.pc = "coefficients"]
    /\ UNCHANGED <<nbvars, tbsvars, calc, credit>>

\* self.cFunc = PFexample.solution[0].cFunc; self.a0 = ...; self.a1 = ...
KeynesianCoefficients ==
    /\ notebook = "Keynesian"
    /\ keyn.pc = "coefficients"
    /\ LET f == keyn.PFexample.solution.cFunc
       IN keyn' = [keyn EXCEPT !.cFunc = f, !.a0 = a0(f), !.a1 = a1(f),
                               !.pc = "done"]
    /\ UNCHANGED <<nbvars, tbsvars, calc, credit>>

(***************************************************************************)
(* The credit-and-income MPC notebook                                      *)
(* Rfree and DiscFac in percent; BoroCnstArt, credit_change and market     *)
(* resources x in units of 0.0001.                                         *)
(***************************************************************************)
BaselineExample == 1

\* x_max = 10. and the grid plotFuncs evaluates on, in steps of 0.1
XStep == 1000

x_max == 100000

XGrid == {k * XStep : k \in 0..(x_max \div XStep)}

NoCreditSolution ==
    [solved |-> FALSE, Rfree |-> 0, CRRA |-> 0, BoroCnstArt |-> 0, DiscFac |-> 0,
     PermGroFac |-> 0, cycles |-> 0]

\* IndShockConsumerType(**Params.init_idiosyncratic_shocks): the library's
\* default parameters, whatever they are
IdiosyncraticDefaults ==
    [Rfree : {102, 103}, CRRA : {2, 5}, BoroCnstArt : {0, -3000},
     DiscFac : {50, 96}, PermGroFac : {100, 101}, cycles : {0, 1},
     solution : {NoCreditSolution}]

NoDiff == [minuend |-> <<>>, subtrahend |-> <<>>, divisor |-> 0]

NoCredit ==
    [pc |-> "Rfree",
     heap |-> <<[Rfree |-> 103, CRRA |-> 2, BoroCnstArt |-> 0, DiscFac |-> 96,
                 PermGroFac |-> 101, cycles |-> 1, solution |-> NoCreditSolution]>>,
     XtraCreditExample |-> 0, credit_change |-> 0,
     MPC_Income |-> NoDiff, MPC_Credit |-> NoDiff]

\* BaselineExample.Rfree = 1.02
CreditSetRfree ==
    /\ notebook = "credit"
    /\ credit.pc = "Rfree"
    /\ credit' = [credit EXCEPT !.heap[BaselineExample].Rfree = 102,
                                !.pc = "overrides"]
    /\ UNCHANGED <<nbvars, tbsvars, calc, keyn>>

\* BaselineExample.Rfree = 1.02; .CRRA = 2.; .BoroCnstArt = -.3; .DiscFac = .5;
\* .cycles = 0
CreditOverrides ==
    /\ notebook = "credit"
    /\ credit.pc = "overrides"
    /\ credit' = [credit EXCEPT !.heap[BaselineExample].Rfree = 102,
                                !.heap[BaselineExample].CRRA = 2,
                                !.heap[BaselineExample].BoroCnstArt = -3000,
                                !.heap[BaselineExample].DiscFac = 50,
                                !.heap[BaselineExample].cycles = 0,
                                !.pc = "copy"]
    /\ UNCHANGED <<nbvars, tbsvars, calc, keyn>>

\* XtraCreditExample = deepcopy(BaselineExample); credit_change = .0001;
\* XtraCreditExample.BoroCnstArt = BaselineExample.BoroCnstArt - credit_change
CreditCopy ==
    /\ notebook = "credit"
    /\ credit.pc = "copy"
    /\ LET cp == deepcopy(credit.heap, BaselineExample)
           credit_change == 1
       IN credit' = [credit EXCEPT
                       !.heap = [cp[1] EXCEPT ![cp[2]].BoroCnstArt =
                                    cp[1][BaselineExample].BoroCnstArt - credit_change],
                       !.XtraCreditExample = cp[2],
                       !.credit_change = credit_change,
                       !.pc = "solve_baseline"]
    /\ UNCHANGED <<nbvars, tbsvars, calc, keyn>>

\* X.solve(): the solution is a term of the receiver's parameters
CreditSolve(h, r) ==
    [h EXCEPT ![r].solution =
        [solved |-> TRUE, Rfree |-> h[r].Rfree, CRRA |-> h[r].CRRA,
         BoroCnstArt |-> h[r].BoroCnstArt, DiscFac |-> h[r].DiscFac,
         PermGroFac |-> h[r].PermGroFac, cycles |-> h[r].cycles]]

\* BaselineExample.solve()
CreditSolveBaseline ==
    /\ notebook = "credit"
    /\ credit.pc = "solve_baseline"
    /\ credit' = [credit EXCEPT !.heap = CreditSolve(credit.heap, BaselineExample),
                                !.pc = "solve_xtra"]
    /\ UNCHANGED <<nbvars, tbsvars, calc, keyn>>

\* XtraCreditExample.solve()
CreditSolveXtra ==
    /\ notebook = "credit"
    /\ credit.pc = "solve_xtra"
    /\ credit' = [credit EXCEPT
                     !.heap = CreditSolve(credit.heap, credit.XtraCreditExample),
                     !.pc = "plot"]
    /\ UNCHANGED <<nbvars, tbsvars, calc, keyn>>

\* X.solution[0].cFunc(x): the value of that solution's function at x
cFuncAt(r, x) == <<credit.heap[r].solution, x>>

\* def FirstDiffMPC_Income(x)
OwnIncomeChange(x) ==
    LET income_change == 10
    IN [minuend |-> cFuncAt(BaselineExample, x + income_change),
        subtrahend |-> cFuncAt(BaselineExample, x),
        divisor |-> income_change]

FirstDiffMPC_Income(x) ==
    LET income_change == credit.credit_change
    IN [minuend |-> cFuncAt(BaselineExample, x + income_change),
        subtrahend |-> cFuncAt(BaselineExample, x),
        divisor |-> income_change]

\* def FirstDiffMPC_Credit(x)
FirstDiffMPC_Credit(x) ==
    [minuend |-> cFuncAt(credit.XtraCreditExample, x),
     subtrahend |-> cFuncAt(BaselineExample, x),
     divisor |-> credit.credit_change]

\* plotFuncs([FirstDiffMPC_Credit, FirstDiffMPC_Income], ...): the two
\* functions at a point of the grid
CreditPlotMPC ==
    /\ notebook = "credit"
    /\ credit.pc = "plot"
    /\ \E x \in XGrid :
          credit' = [credit EXCEPT !.MPC_Income = FirstDiffMPC_Income(x),
                                  !.MPC_Credit = FirstDiffMPC_Credit(x),
                                  !.pc = "done"]
    /\ UNCHANGED <<nbvars, tbsvars, calc, keyn>>

(***************************************************************************)
(* Specifications                                                          *)
(***************************************************************************)
Init ==
    /\ \/ notebook = "cstwMPC" /\ dataPresent \in BOOLEAN
       \/ notebook = "TBS" /\ dataPresent = TRUE
    /\ pc = "construct"
    /\ heap = <<NewIndShockConsumerType>>
    /\ hist = << <<>> >>
    /\ MyTypes = <<>>
    /\ NewTypes = <<>>
    /\ prog = <<>>
    /\ printed = {}
    /\ bound = {}
    /\ stats = NoStats
    /\ errors = {}
    /\ MyTBStype = NewTractableConsumerType
    /\ tbsOut = NoOutput
    /\ calc = NoCalc
    /\ keyn = NoKeynesian
    /\ credit = NoCredit

Next ==
    \/ ConstructType
    \/ LoopStep
    \/ Aggregate
    \/ LorenzImportSCF
    \/ LorenzImportUtilities
    \/ LorenzCompute
    \/ LorenzPlot
    \/ MPCPercentiles
    \/ NewTypesCopy
    \/ NewTypesRun
    \/ NewTypesMPC
    \/ Interact

Spec == Init /\ [][Next]_vars

\* the annualisation statement on every MPC of the grid and every number of
\* periods per year up to MaxPeriods
InitAnnualize ==
    /\ notebook = "annualize"
    /\ dataPresent = TRUE
    /\ pc = "construct"
    /\ heap = <<NewIndShockConsumerType>>
    /\ hist = << <<>> >>
    /\ MyTypes = <<>>
    /\ NewTypes = <<>>
    /\ prog = <<>>
    /\ printed = {}
    /\ bound = {}
    /\ stats = NoStats
    /\ errors = {}
    /\ MyTBStype = NewTractableConsumerType
    /\ tbsOut = NoOutput
    /\ \E m \in MPCs, n \in 1..MaxPeriods :
          calc = [mpc_period |-> m, periods_per_year |-> n,
                  annual |-> <<0, 1>>, done |-> FALSE]
    /\ keyn = NoKeynesian
    /\ credit = NoCredit

NextAnnualize == AnnualizeMPC

SpecAnnualize == InitAnnualize /\ [][NextAnnualize]_vars

\* a kernel that has run nothing of the cstwMPC or the tractable notebook
FreshKernel ==
    /\ dataPresent = TRUE
    /\ pc = "construct"
    /\ heap = <<NewIndShockConsumerType>>
    /\ hist = << <<>> >>
    /\ MyTypes = <<>>
    /\ NewTypes = <<>>
    /\ prog = <<>>
    /\ printed = {}
    /\ bound = {}
    /\ stats = NoStats
    /\ errors = {}
    /\ MyTBStype = NewTractableConsumerType
    /\ tbsOut = NoOutput
    /\ calc = NoCalc

\* KeynesianExample = KeynesianConsumer()
InitKeynesian ==
    /\ notebook = "Keynesian"
    /\ FreshKernel
    /\ \E d \in PerfForesightDefaults : keyn = [NoKeynesian EXCEPT !.PFexample = d]
    /\ credit = NoCredit

NextKeynesian ==
    \/ KeynesianAssign
    \/ KeynesianSolve
    \/ KeynesianUnpack
    \/ KeynesianCoefficients

SpecKeynesian == InitKeynesian /\ [][NextKeynesian]_vars

\* the credit-and-income MPC notebook from BaselineExample's construction
InitCredit ==
    /\ notebook = "credit"
    /\ FreshKernel
    /\ keyn = NoKeynesian
    /\ \E d \in IdiosyncraticDefaults : credit = [NoCredit EXCEPT !.heap = <<d>>]

NextCredit ==
    \/ CreditSetRfree
    \/ CreditOverrides
    \/ CreditCopy
    \/ CreditSolveBaseline
    \/ CreditSolveXtra
    \/ CreditPlotMPC

SpecCredit == InitCredit /\ [][NextCredit]_vars

\* the types' pipelines distributed over workers, final panels collected
NextWorkers ==
    \/ ConstructType
    \/ WorkerStep
    \/ Aggregate

SpecWorkers == Init /\ [][NextWorkers]_vars

(***************************************************************************)
(* Properties                                                              *)
(***************************************************************************)
IsPrefix(a, b) == Len(a) <= Len(b) /\ \A k \in 1..Len(a) : a[k] = b[k]

Simulated(p) == p.state = "simulated"

\* C1: on every agent type the library methods are invoked in the order
\* solve, initializeSim, simulate (simulate never on a type not yet solved and
\* initialized), and every value that enters a statistic (aLvlNow, MPCnow) is
\* read from a type whose simulate has completed.
C1_PipelineOrder ==
    /\ \A i \in 1..Len(MyTypes) :
          IsPrefix(hist[MyTypes[i]], <<"solve", "initializeSim", "simulate">>)
    /\ \A k \in 1..Len(stats.aLvl_all) : Simulated(stats.aLvl_all[k].panel)
    /\ \A k \in 1..Len(stats.sim_wealth) : Simulated(stats.sim_wealth[k].panel)
    /\ \A k \in 1..Len(stats.MPC_sim) : Simulated(stats.MPC_sim[k].panel)
    /\ (stats.mean \/ stats.sim_Lorenz_points \/ stats.MPCpercentiles) =>
          \A i \in 1..Len(MyTypes) :
              hist[MyTypes[i]] = <<"solve", "initializeSim", "simulate">>

C1_Witness ==
    /\ pc = "end"
    /\ stats.mean
    /\ Len(stats.aLvl_all) = 7
    /\ \A i \in 1..Len(MyTypes) :
          hist[MyTypes[i]] = <<"solve", "initializeSim", "simulate">>

\* the panel of type nn (0-based) when its pipeline runs alone on an object of
\* its own
AlonePanel(nn) ==
    LET o == [NewIndShockConsumerType EXCEPT !.DiscFac = DiscFac_dstn(nn),
                                             !.seed = nn]
    IN simulate(initializeSim(solve(<<o>>, 1), 1), 1)[1].panel

SolutionOfCurrent(o) ==
    [solved |-> TRUE, DiscFac |-> o.DiscFac, CRRA |-> o.CRRA, Rfree |-> o.Rfree,
     PermGroFac |-> o.PermGroFac, UnempPrb |-> o.UnempPrb]

\* C7 as stated: whenever solve has been called on parameters that violate an
\* impatience condition, a PolicyFunction for those parameters has been
\* produced.
C7_ViolationNeverBlocks ==
    /\ \A i \in 1..Len(MyTypes) :
          (ViolatesAIC(heap[MyTypes[i]].DiscFac) /\ prog[i] >= 1) =>
              /\ heap[MyTypes[i]].solution.solved
              /\ heap[MyTypes[i]].solution.DiscFac = heap[MyTypes[i]].DiscFac
    /\ (tbsOut.called /\ ~GIC(MyTBStype)) =>
          MyTBStype.solution = SolutionOfCurrent(MyTBStype)

\* C7 amended: in the cstwMPC loop a type that violates the absolute
\* impatience condition is reported by a printed advisory, is still solved, and
\* its initializeSim and simulate still run; in makeTBSplot a solve on
\* parameters that violate the required condition raises, the message is
\* printed, and no PolicyFunction for those parameters is produced.
C7_AdvisoryOrRaise ==
    /\ \A i \in 1..Len(MyTypes) :
          LET o == heap[MyTypes[i]]
          IN ViolatesAIC(o.DiscFac) =>
               /\ prog[i] >= 1 =>
                     /\ o.solution.solved
                     /\ o.solution.DiscFac = o.DiscFac
                     /\ <<"violates the absolute impatience condition", o.DiscFac>>
                            \in printed
               /\ pc \notin {"construct", "loop"} =>
                     /\ Simulated(o.panel)
                     /\ o.panel.policy = o.solution
    /\ <<"loop", "Error">> \notin errors
    /\ (tbsOut.called /\ ~GIC(MyTBStype)) =>
          /\ tbsOut.message
          /\ MyTBStype.solution # SolutionOfCurrent(MyTBStype)
    /\ (tbsOut.called /\ GIC(MyTBStype)) =>
          /\ ~tbsOut.message
          /\ MyTBStype.solution = SolutionOfCurrent(MyTBStype)

C7_Witness ==
    /\ pc = "end"
    /\ \E i \in 1..Len(MyTypes) :
          /\ ViolatesAIC(heap[MyTypes[i]].DiscFac)
          /\ heap[MyTypes[i]].solution.advisory
          /\ Simulated(heap[MyTypes[i]].panel)

\* the cells that compute statistics: the capital-to-income ratio, the Lorenz
\* curves and the MPC percentiles
AggregatorCells ==
    {"aggregate", "lorenz_import_scf", "lorenz_import_utilities",
     "lorenz_compute", "lorenz_plot", "mpc", "newtypes_mpc"}

\* the arrays a statistic was computed from are those of the types' panels now
SnapshotOfPanels(a) ==
    \A k \in 1..Len(a) : a[k].panel = heap[MyTypes[k]].panel

\* MPC_sim is rebound by the very-impatient-household cell, to the MPCs of
\* NewTypes
SnapshotOfMPCs(a) ==
    \A k \in 1..Len(a) :
        a[k].panel = heap[(IF pc = "end" THEN NewTypes ELSE MyTypes)[k]].panel

C17_SolvesWithGivenParameters ==
    tbsOut.called =>
        /\ Parameters(MyTBStype) = tbsOut.args
        /\ ~tbsOut.message => Parameters(MyTBStype.solution) = tbsOut.args

\* C21: building the agent types leaves BaselineType as constructed (DiscFac
\* the dictionary's 0.97), every MyTypes[nn] is an object of its own with
\* DiscFac = DiscFac_dstn[nn], and the assignments to a new type change no
\* object that existed before.
C21_CopiesIndependent ==
    /\ [](/\ heap[BaselineType].DiscFac = BaselineDiscFac
          /\ heap[BaselineType].seed = NoSeed
          /\ \A i \in 1..Len(MyTypes) :
                /\ MyTypes[i] # BaselineType
                /\ heap[MyTypes[i]].DiscFac = DiscFac_dstn(i - 1)
                /\ \A j \in 1..Len(MyTypes) : i # j => MyTypes[i] # MyTypes[j])
    /\ [][(pc = "construct") =>
            \A r \in 1..Len(heap) : heap'[r] = heap[r]]_vars

C21_Witness ==
    /\ pc = "loop"
    /\ Len(MyTypes) = num_types
    /\ heap[BaselineType].DiscFac = BaselineDiscFac
    /\ heap[MyTypes[1]].DiscFac = DiscFac_dstn(0)
    /\ heap[MyTypes[num_types]].DiscFac = DiscFac_dstn(num_types - 1)

\* C22: the type at index nn of MyTypes has seed nn, so the seeds are pairwise
\* distinct, and once the construction loop has ended MyTypes has exactly
\* num_types elements.
C22_SeedIsIndex ==
    /\ Len(MyTypes) <= num_types
    /\ pc # "construct" => Len(MyTypes) = num_types
    /\ \A i \in 1..Len(MyTypes) :
          /\ heap[MyTypes[i]].seed = i - 1
          /\ \A j \in 1..Len(MyTypes) :
                i # j => heap[MyTypes[i]].seed # heap[MyTypes[j]].seed

C22_Witness ==
    /\ pc = "aggregate"
    /\ Len(MyTypes) = num_types
    /\ heap[MyTypes[num_types]].seed = num_types - 1
    /\ heap[MyTypes[num_types]].panel.seed = num_types - 1

\* the very-impatient-household cell, statement by statement
NewTypesCells ==
    {"newtypes_copy", "newtypes_run1", "newtypes_run2", "newtypes_run3",
     "newtypes_mpc"}

\* C23: NewTypes is a list of new objects, one per element of MyTypes; the
\* cell changes no object of MyTypes (parameters, solution, panel); the
\* elements 1..6 of NewTypes are never solved or simulated again and keep what
\* they were copied with; only NewTypes[0] gets DiscFac 0.8 and is solved,
\* initialized and simulated with it.
C23_OnlyFirstNewTypeChanges ==
    /\ [][(pc \in NewTypesCells) =>
            /\ MyTypes' = MyTypes
            /\ \A i \in 1..Len(MyTypes) : heap'[MyTypes[i]] = heap[MyTypes[i]]]_vars
    /\ [](NewTypes # <<>> =>
            /\ Len(NewTypes) = Len(MyTypes)
            /\ \A k \in 1..Len(NewTypes) :
                  /\ \A i \in 1..Len(MyTypes) : NewTypes[k] # MyTypes[i]
                  /\ hist[MyTypes[k]] = <<"solve", "initializeSim", "simulate">>
                  /\ heap[MyTypes[k]].DiscFac = DiscFac_dstn(k - 1)
                  /\ heap[MyTypes[k]].panel.policy = heap[MyTypes[k]].solution
                  /\ k > 1 => /\ heap[NewTypes[k]] = heap[MyTypes[k]]
                              /\ hist[NewTypes[k]] = <<>>
            /\ heap[NewTypes[1]].DiscFac = VeryImpatientDiscFac
            /\ heap[NewTypes[1]].seed = heap[MyTypes[1]].seed
            /\ pc \in {"newtypes_mpc", "end"} =>
                  /\ heap[NewTypes[1]].solution.DiscFac = VeryImpatientDiscFac
                  /\ Simulated(heap[NewTypes[1]].panel)
                  /\ heap[NewTypes[1]].panel.policy = heap[NewTypes[1]].solution)

C23_Witness ==
    /\ pc = "end"
    /\ Len(NewTypes) = num_types
    /\ heap[NewTypes[1]].panel.policy.DiscFac = VeryImpatientDiscFac
    /\ heap[MyTypes[1]].panel.policy.DiscFac = DiscFac_dstn(0)
    /\ heap[NewTypes[num_types]].panel.policy.DiscFac = DiscFac_dstn(num_types - 1)

\* C25: getPercentiles and getLorenzShares are bound only by the second import
\* of the Lorenz cell; when the import of the SCF data fails they are never
\* bound, and both the MPC percentile cell and the very-impatient-household
\* cell end in NameError without producing MPC percentiles.
C25_FailedImportLeavesUnbound ==
    /\ ("getPercentiles" \in bound \/ "getLorenzShares" \in bound) =>
          /\ dataPresent
          /\ pc \notin {"construct", "loop", "aggregate", "lorenz_import_scf",
                         "lorenz_import_utilities"}
    /\ ~dataPresent =>
          /\ ~stats.MPCpercentiles
          /\ ~stats.NewMPCpercentiles
          /\ pc \in NewTypesCells \cup {"end"} => <<"mpc", "NameError">> \in errors
          /\ pc = "end" => <<"newtypes", "NameError">> \in errors

C25_Witness ==
    /\ ~dataPresent
    /\ pc = "end"
    /\ <<"mpc", "NameError">> \in errors
    /\ <<"newtypes", "NameError">> \in errors
    /\ Len(stats.MPC_sim) = num_types

\* the parameters makeTBSplot assigns to MyTBStype
Assigned(o) ==
    [DiscFac |-> o.DiscFac, CRRA |-> o.CRRA, PermGroFac |-> o.PermGroFac,
     UnempPrb |-> o.UnempPrb]

\* C24: no call of makeTBSplot ends in an exception; a call whose solve
\* raised (the assigned parameters violate the condition) printed the message
\* and returned normally; the DiscFac, CRRA, PermGroFac and UnempPrb of the call
\* stay assigned to MyTBStype; the solution of MyTBStype is the one it had
\* before the call, produced by an earlier successful solve for other
\* parameter values, and whatever the call plotted or annotated is that
\* solution.
C24_StaleSolutionPlotted ==
    /\ [][(tbsOut'.called /\ tbsOut'.message) =>
            MyTBStype'.solution = MyTBStype.solution]_vars
    /\ [](tbsOut.called =>
            /\ ~tbsOut.raised
            /\ ~GIC(MyTBStype) => tbsOut.message)
    /\ []((tbsOut.called /\ tbsOut.message) =>
            /\ ~tbsOut.raised
            /\ Assigned(MyTBStype) = Assigned(tbsOut.args)
            /\ ~GIC(MyTBStype)
            /\ MyTBStype.solution.solved
            /\ GIC(MyTBStype.solution)
            /\ Assigned(MyTBStype.solution) # Assigned(MyTBStype)
            /\ tbsOut.emp \in {NoTBSSolution, MyTBStype.solution}
            /\ tbsOut.ret \in {NoTBSSolution, MyTBStype.solution}
            /\ tbsOut.targ \in {NoTBSSolution, MyTBStype.solution})

C24_Witness ==
    /\ tbsOut.called
    /\ tbsOut.message
    /\ ~tbsOut.raised
    /\ tbsOut.emp.solved
    /\ tbsOut.emp = MyTBStype.solution
    /\ tbsOut.targ = MyTBStype.solution
    /\ tbsOut.emp.DiscFac # MyTBStype.DiscFac

\* the parameters of a consumer type of the credit notebook other than its
\* borrowing constraint
OtherParameters(o) ==
    [Rfree |-> o.Rfree, CRRA |-> o.CRRA, DiscFac |-> o.DiscFac,
     PermGroFac |-> o.PermGroFac, cycles |-> o.cycles]

\* C26: XtraCreditExample is an object other than BaselineExample whose
\* BoroCnstArt is BaselineExample's minus credit_change and whose other
\* parameters equal BaselineExample's; creating and changing it leaves
\* BaselineExample as it was (BoroCnstArt -0.3); each consumer is solved for
\* its own parameters; FirstDiffMPC_Income divides by, and shifts x by, the
\* same increment credit_change that FirstDiffMPC_Credit divides by.
C26_OneParameterDiffers ==
    /\ [][(credit.pc = "copy") =>
            (credit'.heap[BaselineExample] = credit.heap[BaselineExample])]_vars
    /\ [](credit.XtraCreditExample # 0 =>
            LET B == credit.heap[BaselineExample]
                X == credit.heap[credit.XtraCreditExample]
            IN /\ credit.XtraCreditExample # BaselineExample
               /\ credit.credit_change > 0
               /\ B.BoroCnstArt = -3000
               /\ X.BoroCnstArt = B.BoroCnstArt - credit.credit_change
               /\ OtherParameters(X) = OtherParameters(B)
               /\ credit.pc \in {"plot", "done"} =>
                     /\ B.solution.BoroCnstArt = B.BoroCnstArt
                     /\ X.solution.BoroCnstArt = X.BoroCnstArt
                     /\ OtherParameters(X.solution) = OtherParameters(B.solution)
               /\ credit.pc = "done" =>
                     /\ credit.MPC_Income.divisor = credit.credit_change
                     /\ credit.MPC_Credit.divisor = credit.MPC_Income.divisor
                     /\ credit.MPC_Income.minuend[2] =
                            credit.MPC_Income.subtrahend[2] + credit.credit_change
                     /\ credit.MPC_Income.minuend[1] = B.solution
                     /\ credit.MPC_Credit.minuend = <<X.solution, credit.MPC_Credit.subtrahend[2]>>
                     /\ credit.MPC_Credit.subtrahend[1] = B.solution)

C26_Witness ==
    /\ credit.pc = "done"
    /\ credit.XtraCreditExample = 2
    /\ credit.heap[2].BoroCnstArt = -3001
    /\ credit.heap[BaselineExample].BoroCnstArt = -3000
    /\ credit.heap[2].PermGroFac = 100
    /\ credit.MPC_Credit.minuend[1].BoroCnstArt = -3001
    /\ credit.MPC_Income.minuend[2] = 9001

\* C27: KeynesianConsumer solves with cycles = 0, DiscFac = 0.05 and
\* PermGroFac = [0.7]; its cFunc is the solution's, a0 = cFunc(0) and
\* a1 = cFunc(1) - cFunc(0), and when cFunc is linear cFunc(y) = a0 + a1*y at
\* every income y.
C27_KeynesianCoefficients ==
    /\ keyn.PFexample.solution.solved =>
          /\ keyn.PFexample.solution.cycles = 0
          /\ keyn.PFexample.solution.DiscFac = 5
          /\ keyn.PFexample.solution.PermGroFac = 70
    /\ keyn.pc = "done" =>
          /\ keyn.PFexample.unpacked
          /\ keyn.cFunc = keyn.PFexample.solution.cFunc
          /\ keyn.a0 = Eval(keyn.cFunc, 0)
          /\ keyn.a1 = Eval(keyn.cFunc, 1) - Eval(keyn.cFunc, 0)
          /\ keyn.cFunc.kind = "linear" =>
                \A y \in 0..MaxIncome :
                    Eval(keyn.cFunc, y) = keyn.a0 + keyn.a1 * y

C27_Witness ==
    /\ keyn.pc = "done"
    /\ keyn.cFunc.kind = "linear"
    /\ keyn.a0 = 1
    /\ keyn.a1 = 2
    /\ Eval(keyn.cFunc, MaxIncome) = 1 + 2 * MaxIncome

\* C8: when the reference data is absent the import that loads it ends in
\* FileNotFoundError; SCF_wealth is never bound (to empty data or anything
\* else), and no Lorenz share is computed and nothing is plotted.
C8_MissingDataFailsFast ==
    ~dataPresent =>
        /\ stats.SCF_wealth = "unbound"
        /\ "SCF_wealth" \notin bound
        /\ stats.SCF_Lorenz_points = "unbound"
        /\ ~stats.sim_Lorenz_points
        /\ stats.plots = {}
        /\ pc \in {"mpc", "end"} => <<"lorenz", "FileNotFoundError">> \in errors

C8_Witness ==
    /\ ~dataPresent
    /\ pc = "end"
    /\ <<"lorenz", "FileNotFoundError">> \in errors

====
